---- MODULE Spec2Model ----
(***************************************************************************)
(* A model of cdifflib.CSequenceMatcher: one comparison session over two   *)
(* sequences a and b, the position index and junk classification derived   *)
(* from b, the lazily computed and cached matching blocks and opcodes.     *)
(*                                                                         *)
(* Python positions are 0-based; a Python list is modelled as a TLA+       *)
(* sequence, so the element at Python position p of s is s[p + 1].         *)
(* An optional attribute is None (the empty tuple) or Some(v) == <<v>>.    *)
(***************************************************************************)
EXTENDS Integers, Sequences, FiniteSets, TLC

\* ------------------------------------------------------------------ bounds
\* longest sequence a caller hands to a session that is reassigned
MaxPoolLen == 1
\* longest sequence of a session that is only queried
MaxLen == 3
\* longest sequence of a session whose find_longest_match is called
MaxFlmLen == 3
\* largest context size n passed to get_grouped_opcodes
MaxContext == 1

\* ------------------------------------------------------------------ values
\* Element values.  "U" stands for an element that has no hash (a nested
\* list); the others are hashable (one-character strings).
HashableElems == {"x", "y", "J"}
Unhashable == {"U"}
Elems == HashableElems \cup Unhashable

Hashable(v) == v \notin Unhashable

None == <<>>
Some(v) == <<v>>
IsNone(o) == o = <<>>
Get(o) == o[1]

\* All sequences over S of length at most n.
SeqsUpTo(S, n) == UNION {[1..m -> S] : m \in 0..n}

\* The element at Python position p.
At(s, p) == s[p + 1]
\* The Python slice s[lo:hi] for 0 <= lo <= hi <= len(s).
Slice(s, lo, hi) == SubSeq(s, lo + 1, hi)

\* A Python object holding a sequence: a list or some other sequence type
\* (str, tuple).  id 0 is a list the session made itself with list(...);
\* id > 0 is an object the caller holds.  Two objects are the same object
\* (Python "is") exactly when the records are equal.
Obj(kind, id, items) == [kind |-> kind, id |-> id, items |-> items]
NoObj == Obj("none", 0, <<>>)

\* list(o): a new list with the same elements.
ToList(o) == IF o.kind = "list" THEN o ELSE Obj("list", 0, o.items)

\* [hash(x) for x in items] raises TypeError on the first unhashable item.
HashRaises(items) == \E n \in 1..Len(items) : ~Hashable(items[n])

\* Number of positions of items that hold v.
Count(items, v) == Cardinality({n \in 1..Len(items) : items[n] = v})

\* The items before the first of the positions bad.
Before(items, bad) ==
    IF bad = {} THEN items
    ELSE SubSeq(items, 1, (CHOOSE n \in bad : \A m \in bad : n <= m) - 1)

\* The items before the first unhashable one.
HashedPrefix(items) ==
    Before(items, {n \in 1..Len(items) : ~Hashable(items[n])})

Max(x, y) == IF x >= y THEN x ELSE y
Min(x, y) == IF x <= y THEN x ELSE y

\* The caller's junk predicates: None, or "the element is J".
JunkPredicates == {"none", "isJ"}
IsJunkElem(isjunk, v) == isjunk = "isJ" /\ v = "J"

\* ------------------------------------------------------------ _cdifflib
\* The native layer: the position index and junk classification (chain_b),
\* the longest-match search and the block decomposition.

\* the autojunk heuristic applies from this length of b on
AutojunkMinLen == 200
\* ntest = len(b) // AutojunkDivisor + 1
AutojunkDivisor == 100

\* Ascending Python positions of v in items.
Positions(items, v, n) ==
    SelectSeq([p \in 1..(Len(items) + 1 - n) |-> n + p - 2],
              LAMBDA q : items[q + 1] = v)

ElemsOf(items) == {items[n] : n \in 1..Len(items)}

\* JunkSet: the values of b the caller's predicate marks.
JunkSet(isjunk, items) == {v \in ElemsOf(items) : IsJunkElem(isjunk, v)}

\* PopularSet: with autojunk on and len(b) >= 200, the non-junk values that
\* occur more than len(b) // 100 + 1 times.
PopularSet(isjunk, autojunk, items) ==
    IF autojunk /\ Len(items) >= AutojunkMinLen
    THEN LET ntest == (Len(items) \div AutojunkDivisor) + 1
         IN {v \in ElemsOf(items) \ JunkSet(isjunk, items) :
                Len(Positions(items, v, 1)) > ntest}
    ELSE {}

\* chain_b: the index b2j (value -> ascending positions, junk and popular
\* values left out) and the two sets it returns.  set_seq2 takes them as
\* "junk, popular" (line 71) and makes their membership tests isbjunk and
\* isbpopular (lines 74-75), "Same as SequenceMatcher.set_seq2" (line 53):
\* the first set holds the junk values and the second the popular values,
\* so isbjunk answers False for a value that is popular and not junk, and
\* the non-junk extension goes across it.
chain_b(isjunk, autojunk, items) ==
    LET junk == JunkSet(isjunk, items)
        popular == PopularSet(isjunk, autojunk, items)
    IN [b2j |-> [v \in Elems |-> IF v \in junk \cup popular THEN <<>>
                                 ELSE Positions(items, v, 1)],
        junk |-> junk,
        popular |-> popular]

\* The result of a native call: a value, or a raised TypeError.
Ok(v) == [err |-> FALSE, val |-> v]
TypeError == [err |-> TRUE, val |-> <<>>]

EmptyMap == [j \in {} |-> 0]

\* The inner loop of the primary search: for the positions js of a[i] in b,
\* from the n-th on, the run ending at (i, j) is one longer than the run
\* ending at (i-1, j-1); a strictly longer run replaces the best.
RECURSIVE PrimaryRow(_, _, _, _, _, _, _, _)
PrimaryRow(i, js, n, blo, bhi, j2len, newj2len, best) ==
    IF n > Len(js) THEN <<newj2len, best>>
    ELSE LET j == js[n] IN
         IF j < blo THEN PrimaryRow(i, js, n + 1, blo, bhi, j2len, newj2len, best)
         ELSE IF j >= bhi THEN <<newj2len, best>>
         ELSE LET k == (IF (j - 1) \in DOMAIN j2len THEN j2len[j - 1] ELSE 0) + 1
                  nbest == IF k > best[3] THEN <<i - k + 1, j - k + 1, k>> ELSE best
              IN PrimaryRow(i, js, n + 1, blo, bhi, j2len,
                            (j :> k) @@ newj2len, nbest)

\* The outer loop of the primary search over i in [alo, ahi).  Looking a[i]
\* up in the index hashes it.
RECURSIVE PrimaryScan(_, _, _, _, _, _, _, _)
PrimaryScan(a, b2j, i, ahi, blo, bhi, j2len, best) ==
    IF i >= ahi THEN Ok(best)
    ELSE IF ~Hashable(At(a, i)) THEN TypeError
    ELSE LET r == PrimaryRow(i, b2j[At(a, i)], 1, blo, bhi, j2len, EmptyMap, best)
         IN PrimaryScan(a, b2j, i + 1, ahi, blo, bhi, r[1], r[2])

\* Backward extension across elements of b whose junk classification is
\* wantJunk and that equal the adjacent element of a.  The junk membership
\* test hashes the element of b.
RECURSIVE ExtendBack(_, _, _, _, _, _, _)
ExtendBack(a, b, isbjunk, alo, blo, m, wantJunk) ==
    IF m[1] > alo /\ m[2] > blo
    THEN LET e == At(b, m[2] - 1) IN
         IF ~Hashable(e) THEN TypeError
         ELSE IF ((e \in isbjunk) = wantJunk) /\ At(a, m[1] - 1) = e
              THEN ExtendBack(a, b, isbjunk, alo, blo,
                              <<m[1] - 1, m[2] - 1, m[3] + 1>>, wantJunk)
              ELSE Ok(m)
    ELSE Ok(m)

\* Forward extension, the same way.
RECURSIVE ExtendFwd(_, _, _, _, _, _, _)
ExtendFwd(a, b, isbjunk, ahi, bhi, m, wantJunk) ==
    IF m[1] + m[3] < ahi /\ m[2] + m[3] < bhi
    THEN LET e == At(b, m[2] + m[3]) IN
         IF ~Hashable(e) THEN TypeError
         ELSE IF ((e \in isbjunk) = wantJunk) /\ At(a, m[1] + m[3]) = e
              THEN ExtendFwd(a, b, isbjunk, ahi, bhi,
                             <<m[1], m[2], m[3] + 1>>, wantJunk)
              ELSE Ok(m)
    ELSE Ok(m)

\* The forward extension that follows the backward extension back.
ThenFwd(a, b, isbjunk, ahi, bhi, back, wantJunk) ==
    IF back.err THEN TypeError
    ELSE ExtendFwd(a, b, isbjunk, ahi, bhi, back.val, wantJunk)

\* One extension pass: backward, then forward.
ExtendPass(a, b, isbjunk, alo, ahi, blo, bhi, r, wantJunk) ==
    IF r.err THEN TypeError
    ELSE ThenFwd(a, b, isbjunk, ahi, bhi,
                 ExtendBack(a, b, isbjunk, alo, blo, r.val, wantJunk), wantJunk)

\* _cdifflib.find_longest_match: primary search, non-junk extension, junk
\* extension.  The result is <<besti, bestj, bestsize>>.
c_find_longest_match(a, b, b2j, isbjunk, alo, ahi, blo, bhi) ==
    ExtendPass(a, b, isbjunk, alo, ahi, blo, bhi,
               ExtendPass(a, b, isbjunk, alo, ahi, blo, bhi,
                          PrimaryScan(a, b2j, alo, ahi, blo, bhi, EmptyMap,
                                      <<alo, blo, 0>>),
                          FALSE),
               TRUE)

\* Flanks whose right range starts where the match starts, not where it
\* ends.
Flanks_FromMatchStart(r, m) ==
    (IF r[1] < m[1] /\ r[3] < m[2] THEN << <<r[1], m[1], r[3], m[2]>> >> ELSE <<>>)
    \o (IF m[1] < r[2] /\ m[2] < r[4]
        THEN << <<m[1], r[2], m[2], r[4]>> >> ELSE <<>>)

\* The ranges left and right of the match m in the range r that are not
\* empty, as the decomposition pushes them.
Flanks(r, m) ==
    (IF r[1] < m[1] /\ r[3] < m[2] THEN << <<r[1], m[1], r[3], m[2]>> >> ELSE <<>>)
    \o (IF m[1] + m[3] < r[2] /\ m[2] + m[3] < r[4]
        THEN << <<m[1] + m[3], r[2], m[2] + m[3], r[4]>> >> ELSE <<>>)

\* The work list of the decomposition: pop a range, search it, record a
\* non-empty match and push the non-empty ranges left and right of it.
RECURSIVE Decompose(_, _, _, _, _, _)
RECURSIVE Searched(_, _, _, _, _, _, _, _)
Decompose(a, b, b2j, isbjunk, queue, found) ==
    IF queue = <<>> THEN Ok(found)
    ELSE Searched(a, b, b2j, isbjunk,
                  queue[Len(queue)], SubSeq(queue, 1, Len(queue) - 1), found,
                  c_find_longest_match(a, b, b2j, isbjunk,
                                       queue[Len(queue)][1], queue[Len(queue)][2],
                                       queue[Len(queue)][3], queue[Len(queue)][4]))

\* The rest of one pass, after the search of the range r gave res.
Searched(a, b, b2j, isbjunk, r, rest, found, res) ==
    IF res.err THEN TypeError
    ELSE IF res.val[3] = 0 THEN Decompose(a, b, b2j, isbjunk, rest, found)
    ELSE Decompose(a, b, b2j, isbjunk, rest \o Flanks(r, res.val),
                   Append(found, res.val))

\* Order of the sort: by a_start, then b_start, then size.
BlockLess(p, q) ==
    \/ p[1] < q[1]
    \/ p[1] = q[1] /\ p[2] < q[2]
    \/ p[1] = q[1] /\ p[2] = q[2] /\ p[3] < q[3]

\* Insert p into the sorted list s.
RECURSIVE InsertBlock(_, _)
InsertBlock(s, p) ==
    IF s = <<>> THEN <<p>>
    ELSE IF BlockLess(p, Head(s)) THEN <<p>> \o s
    ELSE <<Head(s)>> \o InsertBlock(Tail(s), p)

RECURSIVE SortBlocks(_)
SortBlocks(s) == IF s = <<>> THEN <<>> ELSE InsertBlock(SortBlocks(Tail(s)), Head(s))

\* The adjacency merge: a block that starts where the pending block
\* <<i1, j1, k1>> ends in both sequences is added to it.
RECURSIVE MergeAdjacent(_, _, _)
MergeAdjacent(s, cur, out) ==
    IF s = <<>> THEN (IF cur[3] > 0 THEN Append(out, cur) ELSE out)
    ELSE LET nxt == Head(s) IN
         IF cur[1] + cur[3] = nxt[1] /\ cur[2] + cur[3] = nxt[2]
         THEN MergeAdjacent(Tail(s), <<cur[1], cur[2], cur[3] + nxt[3]>>, out)
         ELSE MergeAdjacent(Tail(s), nxt,
                            IF cur[3] > 0 THEN Append(out, cur) ELSE out)

\* _cdifflib.matching_blocks: decompose the full ranges, sort, merge.  The
\* sentinel is not part of its result.
SortedMerged(found) ==
    IF found.err THEN TypeError
    ELSE Ok(MergeAdjacent(SortBlocks(found.val), <<0, 0, 0>>, <<>>))

c_matching_blocks(a, b, b2j, isbjunk) ==
    SortedMerged(Decompose(a, b, b2j, isbjunk, << <<0, Len(a), 0, Len(b)>> >>, <<>>))

\* ------------------------------------------------------ CSequenceMatcher
\* A session is a record of the object's attributes.  A method is an
\* operator from the session and the arguments to the session afterwards
\* and what the call gave back: how it left ("early": a return before any
\* work, "return", "raise"), the form of the returned object and its value.
Result(s, exit, form, val) ==
    [self |-> s, ret |-> [exit |-> exit, form |-> form, val |-> val]]
Raise(s) == Result(s, "raise", "TypeError", <<>>)

\* _Match(besti, bestj, bestsize) of what the native call r gave.
AsMatch(s, r) ==
    IF r.err THEN Raise(s)
    ELSE Result(s, "return", "Match", <<r.val[1], r.val[2], r.val[3]>>)

\* The same with besti and bestj exchanged.
AsMatchSwapped(s, r) ==
    IF r.err THEN Raise(s)
    ELSE Result(s, "return", "Match", <<r.val[2], r.val[1], r.val[3]>>)

\* find_longest_match with the fields of the Match in the wrong order.
find_longest_match_Swapped(s, alo, ahi, blo, bhi) ==
    AsMatchSwapped(s, c_find_longest_match(s.a.items, s.b.items, s.b2j,
                                           Get(s.isbjunk), alo, ahi, blo, bhi))

\* find_longest_match: the native search wrapped in a Match.
find_longest_match(s, alo, ahi, blo, bhi) ==
    AsMatch(s, c_find_longest_match(s.a.items, s.b.items, s.b2j,
                                    Get(s.isbjunk), alo, ahi, blo, bhi))

\* set_seq1 with the list made of a non-list stored in b, a left as handed.
set_seq1_ListIntoB(s, o) ==
    IF o = s.a THEN Result(s, "early", "None", <<>>)
    ELSE IF HashRaises(o.items)
         THEN Raise([s EXCEPT !.a = o,
                              !.b = IF o.kind = "list" THEN @ ELSE ToList(o)])
    ELSE Result([s EXCEPT !.a = o,
                          !.b = IF o.kind = "list" THEN @ ELSE ToList(o)],
                "return", "None", <<>>)

\* set_seq1: return if a is the object held; else hold it, as a list, and
\* hash its elements.
set_seq1(s, o) ==
    IF o = s.a THEN Result(s, "early", "None", <<>>)
    ELSE IF HashRaises(o.items) THEN Raise([s EXCEPT !.a = ToList(o)])
    ELSE Result([s EXCEPT !.a = ToList(o)], "return", "None", <<>>)

\* The session with the caches reset and the index and predicates c.
Rebuilt(s, c) ==
    [s EXCEPT !.matching_blocks = None,
              !.opcodes = None,
              !.fullbcount = None,
              !.b2j = c.b2j,
              !.isbjunk = Some(c.junk),
              !.isbpopular = Some(c.popular)]

\* The same with opcodes left as it is.
RebuiltKeepsOpcodes(s, c) ==
    [s EXCEPT !.matching_blocks = None,
              !.fullbcount = None,
              !.b2j = c.b2j,
              !.isbjunk = Some(c.junk),
              !.isbpopular = Some(c.popular)]

\* set_seq2 from the session s1 that holds the new b as a list.
Seq2Held(s1) ==
    IF HashRaises(s1.a.items) \/ HashRaises(s1.b.items) THEN Raise(s1)
    ELSE Result(Rebuilt(s1, chain_b(s1.isjunk, s1.autojunk, s1.b.items)),
                "return", "None", <<>>)

Seq2HeldKeepsOpcodes(s1) ==
    IF HashRaises(s1.a.items) \/ HashRaises(s1.b.items) THEN Raise(s1)
    ELSE Result(RebuiltKeepsOpcodes(s1, chain_b(s1.isjunk, s1.autojunk, s1.b.items)),
                "return", "None", <<>>)

\* set_seq2 that resets matching_blocks and leaves opcodes.
set_seq2_KeepsOpcodes(s, o) ==
    IF o = s.b /\ ~IsNone(s.isbjunk) THEN Result(s, "early", "None", <<>>)
    ELSE Seq2HeldKeepsOpcodes([s EXCEPT !.b = ToList(o), !.a = ToList(s.a)])

\* set_seq2 that builds the index and the predicates from the b it held
\* before the call.
Seq2HeldChainsOld(s1, olditems) ==
    IF HashRaises(s1.a.items) \/ HashRaises(s1.b.items) THEN Raise(s1)
    ELSE Result(Rebuilt(s1, chain_b(s1.isjunk, s1.autojunk, olditems)),
                "return", "None", <<>>)

set_seq2_ChainsOldB(s, o) ==
    IF o = s.b /\ ~IsNone(s.isbjunk) THEN Result(s, "early", "None", <<>>)
    ELSE Seq2HeldChainsOld([s EXCEPT !.b = ToList(o), !.a = ToList(s.a)], s.b.items)

\* set_seq2: return if b is the object held and isbjunk exists; else hold
\* it, make a and b lists, hash the elements of both, reset the caches and
\* build the index and the junk and popular predicates.
set_seq2(s, o) ==
    IF o = s.b /\ ~IsNone(s.isbjunk) THEN Result(s, "early", "None", <<>>)
    ELSE Seq2Held([s EXCEPT !.b = ToList(o), !.a = ToList(s.a)])

\* The end of get_matching_blocks after the native call gave r: the
\* sentinel appended, the list cached, a map of Match over it returned.
Cached(s, blocks) ==
    Result([s EXCEPT !.matching_blocks = Some(blocks)], "return", "map", blocks)

WithSentinel(s, r) ==
    IF r.err THEN Raise(s)
    ELSE Cached(s, Append(r.val, <<Len(s.a.items), Len(s.b.items), 0>>))

WithSwappedSentinel(s, r) ==
    IF r.err THEN Raise(s)
    ELSE Cached(s, Append(r.val, <<Len(s.b.items), Len(s.a.items), 0>>))

\* get_matching_blocks whose sentinel has the two lengths exchanged.
get_matching_blocks_SwappedSentinel(s) ==
    IF ~IsNone(s.matching_blocks)
    THEN Result(s, "early", "cached", Get(s.matching_blocks))
    ELSE WithSwappedSentinel(s, c_matching_blocks(s.a.items, s.b.items, s.b2j,
                                                  Get(s.isbjunk)))

\* get_matching_blocks: the cached list if there is one; else the native
\* decomposition with the sentinel appended, cached, and returned as a map
\* of Match over the cached list.
get_matching_blocks(s) ==
    IF ~IsNone(s.matching_blocks)
    THEN Result(s, "early", "cached", Get(s.matching_blocks))
    ELSE WithSentinel(s, c_matching_blocks(s.a.items, s.b.items, s.b2j,
                                           Get(s.isbjunk)))

\* The tag of the opcode that turns a[i:ai] into b[j:bj]; "" if both are empty.
OpcodeTag(i, ai, j, bj) ==
    IF i < ai /\ j < bj THEN "replace"
    ELSE IF i < ai THEN "delete"
    ELSE IF j < bj THEN "insert"
    ELSE ""

\* OpcodeStep without the test of size: the sentinel gives an 'equal' too.
OpcodeStep_NoSizeTest(block, i, j) ==
    LET ai == block[1]
        bj == block[2]
        size == block[3]
        tag == IF i < ai /\ j < bj THEN "replace"
               ELSE IF i < ai THEN "delete"
               ELSE IF j < bj THEN "insert"
               ELSE ""
    IN (IF tag # "" THEN << <<tag, i, ai, j, bj>> >> ELSE <<>>)
       \o << <<"equal", ai, ai + size, bj, bj + size>> >>

\* Lines 130-138 for the block <<ai, bj, size>> with the cursors at i and
\* j: the opcode that turns a[i:ai] into b[j:bj], if there is any.
GapPart(block, i, j) ==
    IF OpcodeTag(i, block[1], j, block[2]) # ""
    THEN << <<OpcodeTag(i, block[1], j, block[2]), i, block[1], j, block[2]>> >>
    ELSE <<>>

\* Lines 139-143: the 'equal' opcode of the block, unless it is the
\* sentinel.
EqualPart(block) ==
    IF block[3] # 0
    THEN << <<"equal", block[1], block[1] + block[3],
              block[2], block[2] + block[3]>> >>
    ELSE <<>>

\* One pass of the loop of get_opcodes, for the block <<ai, bj, size>> with
\* the cursors at i and j: the opcodes it appends.
OpcodeStep(block, i, j) == GapPart(block, i, j) \o EqualPart(block)

\* The loop of get_opcodes over the blocks from the n-th on, with the
\* cursors i and j and the opcodes appended so far.
RECURSIVE OpcodeLoop(_, _, _, _, _)
OpcodeLoop(blocks, n, i, j, answer) ==
    IF n > Len(blocks) THEN answer
    ELSE OpcodeLoop(blocks, n + 1,
                    blocks[n][1] + blocks[n][3], blocks[n][2] + blocks[n][3],
                    answer \o OpcodeStep(blocks[n], i, j))

\* The session s with the filled answer list, which opcodes already names,
\* returned.
Answered(s, answer) ==
    Result([s EXCEPT !.opcodes = Some(answer)], "return", "cached", answer)

\* The rest of get_opcodes after get_matching_blocks gave g: its raise goes
\* on to the caller; else the loop over its blocks fills the answer.
Pumped(g) ==
    IF g.ret.exit = "raise" THEN Raise(g.self)
    ELSE Answered(g.self, OpcodeLoop(g.ret.val, 1, 0, 0, <<>>))

\* get_opcodes: the cached list if there is one; else opcodes is set to the
\* empty answer list, the matching blocks are fetched, and the loop fills
\* the answer, which is the cached object.
get_opcodes(s) ==
    IF ~IsNone(s.opcodes)
    THEN Result(s, "early", "cached", Get(s.opcodes))
    ELSE Pumped(get_matching_blocks([s EXCEPT !.opcodes = Some(<<>>)]))

\* ---------------------------------- methods of the base SequenceMatcher
\* CSequenceMatcher (line 20) inherits them; they read and write the
\* attributes the methods above keep.

\* fullbcount as quick_ratio fills it: the count of each element of b,
\* taken in order up to the first element that has no hash.
Counted(hashed) == [v \in ElemsOf(hashed) |-> Count(hashed, v)]

CountsOf(items) == Counted(HashedPrefix(items))

CountGet(counts, v) == IF v \in DOMAIN counts THEN counts[v] ELSE 0

\* The loop of quick_ratio over a from the n-th element on: avail holds
\* what is left of each value seen, matches the elements of a that found
\* one left.
RECURSIVE QuickLoop(_, _, _, _, _)
QuickLoop(items, n, counts, avail, matches) ==
    IF n > Len(items) THEN matches
    ELSE LET numb == CountGet(IF items[n] \in DOMAIN avail THEN avail ELSE counts,
                              items[n])
         IN QuickLoop(items, n + 1, counts,
                      [v \in DOMAIN avail \cup {items[n]} |->
                          IF v = items[n] THEN numb - 1 ELSE avail[v]],
                      IF numb > 0 THEN matches + 1 ELSE matches)

RECURSIVE Gcd(_, _)
Gcd(x, y) == IF y = 0 THEN x ELSE Gcd(y, x % y)

\* _calculate_ratio: 2.0 * matches / length, or 1.0 for length 0, as the
\* fraction <<numerator, denominator>> in lowest terms.
CalculateRatio(matches, length) ==
    IF length = 0 THEN <<1, 1>>
    ELSE <<(2 * matches) \div Gcd(2 * matches, length),
           length \div Gcd(2 * matches, length)>>

\* quick_ratio with fullbcount in place: the loop over a raises at an
\* element that has no hash.
QuickCounted(s1) ==
    IF HashRaises(s1.a.items) THEN Raise(s1)
    ELSE Result(s1, "return", "float",
                CalculateRatio(QuickLoop(s1.a.items, 1, Get(s1.fullbcount),
                                         [v \in {} |-> 0], 0),
                               Len(s1.a.items) + Len(s1.b.items)))

\* quick_ratio: if fullbcount is None it is set to an empty dict that the
\* loop over b fills, raising at an element that has no hash; then the
\* loop over a counts the matches.
quick_ratio(s) ==
    IF ~IsNone(s.fullbcount) THEN QuickCounted(s)
    ELSE IF HashRaises(s.b.items)
         THEN Raise([s EXCEPT !.fullbcount = Some(CountsOf(s.b.items))])
    ELSE QuickCounted([s EXCEPT !.fullbcount = Some(CountsOf(s.b.items))])

\* sum(triple[-1] for triple in blocks), from the n-th block on.
RECURSIVE SumSizes(_, _)
SumSizes(blocks, n) ==
    IF n > Len(blocks) THEN 0 ELSE blocks[n][3] + SumSizes(blocks, n + 1)

\* The rest of ratio after get_matching_blocks gave g.
Summed(g) ==
    IF g.ret.exit = "raise" THEN Raise(g.self)
    ELSE Result(g.self, "return", "float",
                CalculateRatio(SumSizes(g.ret.val, 1),
                               Len(g.self.a.items) + Len(g.self.b.items)))

\* ratio: the sizes of the matching blocks, which it fetches with
\* get_matching_blocks, against the lengths.
ratio(s) == Summed(get_matching_blocks(s))

\* real_quick_ratio: the shorter length against both; it writes nothing.
real_quick_ratio(s) ==
    Result(s, "return", "float",
           CalculateRatio(Min(Len(s.a.items), Len(s.b.items)),
                          Len(s.a.items) + Len(s.b.items)))

\* The first n elements of the 'equal' opcode c, and its last n.
HeadOf(c, n) == <<"equal", c[2], Min(c[3], c[2] + n), c[4], Min(c[5], c[4] + n)>>
TailOf(c, n) == <<"equal", Max(c[2], c[3] - n), c[3], Max(c[4], c[5] - n), c[5]>>

\* codes[0] = tag, max(i1, i2-n), i2, max(j1, j2-n), j2 if it is 'equal'.
FixFirst(codes, n) ==
    IF codes[1][1] = "equal"
    THEN [codes EXCEPT ![1] = TailOf(@, n)]
    ELSE codes

\* codes[-1] = tag, i1, min(i2, i1+n), j1, min(j2, j1+n) if it is 'equal'.
FixLast(codes, n) ==
    IF codes[Len(codes)][1] = "equal"
    THEN [codes EXCEPT ![Len(codes)] = HeadOf(@, n)]
    ELSE codes

\* get_grouped_opcodes is a generator function.  The generator it returns
\* is a record: where its body stands (pc: "start" before the first line,
\* "mid" at the yield inside the loop, "done" at the yield after the loop,
\* which nothing follows, and once the body has ended), and what the rest
\* of the body reads: the argument n, the list codes and the number k of
\* the opcode the loop is at.
NoGen == [pc |-> "none", n |-> 0, codes |-> <<>>, k |-> 0]
NewGen(n) == [NoGen EXCEPT !.pc = "start", !.n = n]
DoneGen == [NoGen EXCEPT !.pc = "done"]

\* What a next() on a generator gives: the session, the generator and the
\* group yielded, or StopIteration when the body ends.
Yield(s, g, group) ==
    [self |-> s, gen |-> g,
     ret |-> [exit |-> "return", form |-> "group", val |-> group]]
Stop(s) ==
    [self |-> s, gen |-> DoneGen,
     ret |-> [exit |-> "raise", form |-> "StopIteration", val |-> <<>>]]

\* The loop of get_grouped_opcodes from the k-th of the codes on, with the
\* group collected so far, up to the next yield: a long 'equal' ends the
\* group with its first n elements and is yielded inside the loop; after
\* the loop the last group is yielded unless it is empty or one 'equal'.
RECURSIVE GroupLoop(_, _, _, _, _)
GroupLoop(s, codes, k, n, group) ==
    IF k > Len(codes)
    THEN (IF group # <<>> /\ ~(Len(group) = 1 /\ group[1][1] = "equal")
          THEN Yield(s, DoneGen, group)
          ELSE Stop(s))
    ELSE IF codes[k][1] = "equal" /\ codes[k][3] - codes[k][2] > n + n
    THEN Yield(s, [pc |-> "mid", n |-> n, codes |-> codes, k |-> k],
               Append(group, HeadOf(codes[k], n)))
    ELSE GroupLoop(s, codes, k + 1, n, Append(group, codes[k]))

\* The first next() after get_opcodes gave g: its raise ends the
\* generator; an empty list is replaced by a list of the generator's own;
\* any other list is the cached one, and codes[0] and codes[-1] are
\* assigned in place, so self.opcodes shows them.
Started(g, n) ==
    IF g.ret.exit = "raise"
    THEN [self |-> g.self, gen |-> DoneGen, ret |-> Raise(g.self).ret]
    ELSE IF g.ret.val = <<>>
    THEN GroupLoop(g.self, FixLast(FixFirst(<< <<"equal", 0, 1, 0, 1>> >>, n), n),
                   1, n, <<>>)
    ELSE GroupLoop([g.self EXCEPT !.opcodes = Some(FixLast(FixFirst(g.ret.val, n), n))],
                   FixLast(FixFirst(g.ret.val, n), n), 1, n, <<>>)

\* next() on the generator g: the body runs from where it stands to its
\* next yield or to its end.  After the yield inside the loop the new
\* group starts with the last n elements of the long 'equal'.
next_group(s, g) ==
    IF g.pc = "start" THEN Started(get_opcodes(s), g.n)
    ELSE IF g.pc = "mid"
    THEN GroupLoop(s, g.codes, g.k + 1, g.n, <<TailOf(g.codes[g.k], g.n)>>)
    ELSE Stop(s)

\* get_grouped_opcodes(n): no line of the body runs; the call returns the
\* new generator.
get_grouped_opcodes(s, n) ==
    [self |-> s, gen |-> NewGen(n),
     ret |-> [exit |-> "return", form |-> "generator", val |-> <<>>]]

\* The object before set_seqs: no sequences, no caches, no predicates.
Blank(isjunk, autojunk) ==
    [isjunk |-> isjunk, autojunk |-> autojunk,
     a |-> NoObj, b |-> NoObj,
     b2j |-> [v \in Elems |-> <<>>],
     isbjunk |-> None, isbpopular |-> None, fullbcount |-> None,
     matching_blocks |-> None, opcodes |-> None]

\* __init__: set_seq1(a), then set_seq2(b), on the blank object.
Seq2After(r1, ob) == IF r1.ret.exit = "raise" THEN r1 ELSE set_seq2(r1.self, ob)

init(isjunk, oa, ob, autojunk) ==
    Seq2After(set_seq1(Blank(isjunk, autojunk), oa), ob)

\* set_seqs: set_seq1(a), then set_seq2(b); it returns None whichever way
\* the two returned, and a raise of either is its own.
BothSet(r) ==
    IF r.ret.exit = "raise" THEN r ELSE Result(r.self, "return", "None", <<>>)

set_seqs(s, oa, ob) == BothSet(Seq2After(set_seq1(s, oa), ob))

\* ------------------------------------------------------------ the session
\* gen is the generator the caller holds: the one the last call of
\* get_grouped_opcodes returned.
VARIABLES self, call, ret, gen
vars == <<self, call, ret, gen>>

Call(name, o, range) == [name |-> name, obj |-> o, range |-> range]
NoRange == <<0, 0, 0, 0>>

\* The objects a caller passes to set_seq1 and set_seq2.
PoolElems == {"J", "U"}
Pool == {Obj(kind, 1, items) :
            kind \in {"list", "tuple"}, items \in SeqsUpTo(PoolElems, MaxPoolLen)}

\* c copies of the value v, then "y" up to length n.
LongSeq(n, c, v) == [p \in 1..n |-> IF p <= c THEN v ELSE "y"]

\* The objects a caller passes to set_seqs as a.
PairPool == {o \in Pool : o.kind = "tuple"}

\* A constructor that raises yields no session.
Starts(r) ==
    /\ r.ret.exit # "raise"
    /\ self = r.self
    /\ call = Call("__init__", NoObj, NoRange)
    /\ ret = r.ret
    /\ gen = NoGen

Constructed(isjunk, oa, ob, autojunk) == Starts(init(isjunk, oa, ob, autojunk))

\* autojunk is left at its default: it plays no part in sequences this short.
Init ==
    \E isjunk \in JunkPredicates, oa \in Pool, ob \in Pool :
        Constructed(isjunk, oa, ob, TRUE)

Apply(r, c) == self' = r.self /\ ret' = r.ret /\ call' = c /\ gen' = gen

\* set_seq1, set_seq2 and set_seqs on the objects of the sets P and Q.
SetSeq1From(P) ==
    \E o \in P : Apply(set_seq1(self, o), Call("set_seq1", o, NoRange))

SetSeq2From(Q) ==
    \E o \in Q : Apply(set_seq2(self, o), Call("set_seq2", o, NoRange))

SetSeqsFrom(P, Q) ==
    \E oa \in P, ob \in Q :
        Apply(set_seqs(self, oa, ob),
              [name |-> "set_seqs", obj |-> oa, range |-> NoRange, obj2 |-> ob])

SetSeq1 == SetSeq1From(Pool)

SetSeq2 == SetSeq2From(Pool)

SetSeqs == SetSeqsFrom(PairPool, PairPool)

GetMatchingBlocks ==
    Apply(get_matching_blocks(self), Call("get_matching_blocks", NoObj, NoRange))

GetOpcodes == Apply(get_opcodes(self), Call("get_opcodes", NoObj, NoRange))

\* A method that makes or advances the generator.
ApplyGen(r, c) == self' = r.self /\ ret' = r.ret /\ call' = c /\ gen' = r.gen

\* The context sizes a caller passes to get_grouped_opcodes.
GetGroupedOpcodes ==
    \E n \in 0..MaxContext :
        ApplyGen(get_grouped_opcodes(self, n),
                 [name |-> "get_grouped_opcodes", obj |-> NoObj,
                  range |-> NoRange, n |-> n])

\* next() on the generator held, by the caller or by the loop that
\* consumes it.
NextGroup ==
    /\ gen.pc # "none"
    /\ ApplyGen(next_group(self, gen), Call("next", NoObj, NoRange))

QuickRatio == Apply(quick_ratio(self), Call("quick_ratio", NoObj, NoRange))

Ratio == Apply(ratio(self), Call("ratio", NoObj, NoRange))

RealQuickRatio ==
    Apply(real_quick_ratio(self), Call("real_quick_ratio", NoObj, NoRange))

FindLongestMatch ==
    \E alo \in 0..Len(self.a.items), blo \in 0..Len(self.b.items) :
      \E ahi \in alo..Len(self.a.items), bhi \in blo..Len(self.b.items) :
        Apply(find_longest_match(self, alo, ahi, blo, bhi),
              Call("find_longest_match", NoObj, <<alo, ahi, blo, bhi>>))

\* The public methods but find_longest_match, which writes nothing and has
\* a specification of its own (SpecFlm).
Next ==
    \/ SetSeq1 \/ SetSeq2 \/ SetSeqs
    \/ GetMatchingBlocks \/ GetOpcodes
    \/ GetGroupedOpcodes \/ NextGroup
    \/ Ratio \/ QuickRatio \/ RealQuickRatio

Spec == Init /\ [][Next]_vars

\* A session constructed with two strings and only queried.
InitDiff ==
    \E isjunk \in JunkPredicates :
      \E sa \in SeqsUpTo(HashableElems, MaxLen), sb \in SeqsUpTo(HashableElems, MaxLen) :
        Constructed(isjunk, Obj("str", 1, sa), Obj("str", 1, sb), TRUE)

NextDiff ==
    \/ GetMatchingBlocks \/ GetOpcodes
    \/ GetGroupedOpcodes \/ NextGroup
    \/ Ratio \/ QuickRatio \/ RealQuickRatio

SpecDiff == InitDiff /\ [][NextDiff]_vars

\* A session constructed with two strings whose find_longest_match is called.
FlmElems == {"x", "J"}

InitFlm ==
    \E isjunk \in JunkPredicates :
      \E sa \in SeqsUpTo(FlmElems, MaxFlmLen), sb \in SeqsUpTo(FlmElems, MaxFlmLen) :
        Constructed(isjunk, Obj("str", 1, sa), Obj("str", 1, sb), TRUE)

\* One call per session: the call leaves the session as it is, so a second
\* call on the same session repeats a first call.
NextFlm == call.name = "__init__" /\ FindLongestMatch

SpecFlm == InitFlm /\ [][NextFlm]_vars

\* ------------------------------------------ sessions over a long sequence
\* A session constructed with a short string without "y" and a string long
\* enough for the autojunk rule: c copies of one value, then "y" up to
\* length n.
MaxRareCount == 5
MaxOverLen == 1
RareElems == {"x"}

\* No junk predicate is given: the popular values are those of autojunk.
InitAuto ==
    \E autojunk \in BOOLEAN, sa \in SeqsUpTo(RareElems, 1) :
      \E n \in (AutojunkMinLen - 1)..(AutojunkMinLen + MaxOverLen), c \in 0..MaxRareCount :
        Constructed("none", Obj("str", 1, sa), Obj("str", 1, LongSeq(n, c, "x")), autojunk)

SpecAuto == InitAuto /\ [][NextDiff]_vars

\* --------------------------- sessions reassigned a long second sequence
\* The objects a caller passes as a: short ones.
LongPoolA == {Obj("tuple", 1, items) : items \in SeqsUpTo({"J"}, MaxPoolLen)}

\* The objects a caller passes as b: a short one, and two of the length
\* from which the autojunk rule applies, with one "J" and with one "J" more
\* than ntest, the rest "y".
LongPoolB ==
    {Obj("tuple", 1, <<"J">>)}
    \cup {Obj("tuple", 1, LongSeq(AutojunkMinLen, c, "J")) :
             c \in {1, (AutojunkMinLen \div AutojunkDivisor) + 2}}

InitLong ==
    \E isjunk \in JunkPredicates, autojunk \in BOOLEAN :
      \E oa \in LongPoolA, ob \in LongPoolB :
        Constructed(isjunk, oa, ob, autojunk)

NextLong ==
    \/ SetSeq1From(LongPoolA) \/ SetSeq2From(LongPoolB)
    \/ SetSeqsFrom(LongPoolA, LongPoolB)
    \/ GetMatchingBlocks \/ GetOpcodes
    \/ GetGroupedOpcodes \/ NextGroup
    \/ Ratio \/ QuickRatio \/ RealQuickRatio

SpecLong == InitLong /\ [][NextLong]_vars

\* ------------------------------------------------- threads on one session
\* Threads that call the two getters on one session that no thread
\* reassigns.  The interpreter may switch threads between any two
\* statements, so a call is a row of steps, one for each read or write of
\* an attribute of the session: the test of the cache (lines 82, 120), the
\* return of the cached attribute (83, 121), the storing of the blocks
\* (85-87), the return of the map (89), the publication of the empty answer
\* list (123), the call of get_matching_blocks inside get_opcodes (124),
\* each append to the answer (138, 143) and the return of the answer (144).
NumThreads == 2
MaxSharedLen == 1
Threads == 1..NumThreads
Getters == {"get_matching_blocks", "get_opcodes"}

\* A thread's call: the method it called, the method whose body it is in
\* (frame), its position there, and the locals of get_opcodes: the blocks
\* it iterates, the number n of the next one, the cursors i and j, the
\* answer list, and whether that list is the object self.opcodes names.
Idle == [name |-> "idle", frame |-> "idle", pc |-> "idle", hit |-> FALSE,
         blocks |-> <<>>, n |-> 0, i |-> 0, j |-> 0,
         answer |-> <<>>, alias |-> FALSE]
NoRet == [exit |-> "none", form |-> "None", val |-> <<>>]

\* The call c after its return.
Ended(c) == [Idle EXCEPT !.name = c.name]

CacheOf(s, name) ==
    IF name = "get_matching_blocks" THEN s.matching_blocks ELSE s.opcodes

\* The test that finds no cache whatever the attribute holds.
Hit_Never(s, name) == FALSE

\* "if self.matching_blocks is not None", "if self.opcodes is not None".
Hit(s, name) == ~IsNone(CacheOf(s, name))

InitShared ==
    \E isjunk \in JunkPredicates :
      \E sa \in SeqsUpTo(FlmElems, MaxSharedLen), sb \in SeqsUpTo(FlmElems, MaxSharedLen) :
        /\ self = init(isjunk, Obj("str", 1, sa), Obj("str", 1, sb), TRUE).self
        /\ call = [t \in Threads |-> Idle]
        /\ ret = [t \in Threads |-> NoRet]
        /\ gen = NoGen

Begin(t) ==
    /\ call[t].pc = "idle"
    /\ \E name \in Getters :
          call' = [call EXCEPT ![t] = [Idle EXCEPT !.name = name, !.frame = name,
                                                   !.pc = "test"]]
    /\ ret' = [ret EXCEPT ![t] = NoRet]
    /\ UNCHANGED <<self, gen>>

\* Lines 82 and 120.
Test(t) ==
    /\ call[t].pc = "test"
    /\ call' = [call EXCEPT ![t].hit = Hit(self, call[t].frame),
                            ![t].pc = IF Hit(self, call[t].frame)
                                      THEN "cached" ELSE "compute"]
    /\ UNCHANGED <<self, ret, gen>>

\* Lines 83 and 121: the attribute is read again and the object it names is
\* returned.  ret keeps what the list holds at that moment.
ReturnCached(t) ==
    /\ call[t].pc = "cached" /\ call[t].frame = call[t].name
    /\ ret' = [ret EXCEPT ![t] = Result(self, "early", "cached",
                                        Get(CacheOf(self, call[t].name))).ret]
    /\ call' = [call EXCEPT ![t] = Ended(call[t])]
    /\ UNCHANGED <<self, gen>>

\* Lines 85-87 as get_matching_blocks does them when it finds no cache.
Stored(t, g) ==
    /\ g.ret.exit = "return"
    /\ self' = g.self
    /\ call' = [call EXCEPT ![t].pc = "mapped"]
    /\ UNCHANGED <<ret, gen>>

StoreBlocks(t) ==
    /\ call[t].pc = "compute" /\ call[t].frame = "get_matching_blocks"
    /\ Stored(t, get_matching_blocks([self EXCEPT !.matching_blocks = None]))

\* Line 89: a map over the list self.matching_blocks names now.
ReturnMap(t) ==
    /\ call[t].pc = "mapped" /\ call[t].name = "get_matching_blocks"
    /\ ret' = [ret EXCEPT ![t] = Result(self, "return", "map",
                                        Get(self.matching_blocks)).ret]
    /\ call' = [call EXCEPT ![t] = Ended(call[t])]
    /\ UNCHANGED <<self, gen>>

\* Lines 122-123 and the call at line 124: self.opcodes names the new empty
\* answer list of this thread, and no longer the list of any other thread.
ResetOpcodes(t) ==
    /\ call[t].pc = "compute" /\ call[t].frame = "get_opcodes"
    /\ self' = [self EXCEPT !.opcodes = Some(<<>>)]
    /\ call' = [u \in Threads |->
                  IF u = t
                  THEN [call[t] EXCEPT !.i = 0, !.j = 0, !.answer = <<>>,
                                       !.alias = TRUE,
                                       !.frame = "get_matching_blocks",
                                       !.pc = "test"]
                  ELSE [call[u] EXCEPT !.alias = FALSE]]
    /\ UNCHANGED <<ret, gen>>

\* The get_matching_blocks called at line 124 returns (line 83 or 89) and
\* the loop starts over the list self.matching_blocks names now.
TakeBlocks(t) ==
    /\ call[t].name = "get_opcodes" /\ call[t].frame = "get_matching_blocks"
    /\ call[t].pc \in {"cached", "mapped"}
    /\ call' = [call EXCEPT ![t].blocks = Get(self.matching_blocks),
                            ![t].n = 1,
                            ![t].frame = "get_opcodes",
                            ![t].pc = "loop"]
    /\ UNCHANGED <<self, ret, gen>>

\* The thread's answer list with the opcodes ops appended; the session
\* shows them if self.opcodes names that list.
Appended(t, ops) ==
    self' = IF call[t].alias
            THEN [self EXCEPT !.opcodes = Some(call[t].answer \o ops)]
            ELSE self

\* Lines 124-139 for the n-th block: the opcode of the gap before it, and
\* the cursors moved behind it.
GapStep(t) ==
    /\ call[t].pc = "loop" /\ call[t].n <= Len(call[t].blocks)
    /\ Appended(t, GapPart(call[t].blocks[call[t].n], call[t].i, call[t].j))
    /\ call' = [call EXCEPT
                  ![t].answer = @ \o GapPart(call[t].blocks[call[t].n],
                                             call[t].i, call[t].j),
                  ![t].i = call[t].blocks[call[t].n][1] + call[t].blocks[call[t].n][3],
                  ![t].j = call[t].blocks[call[t].n][2] + call[t].blocks[call[t].n][3],
                  ![t].pc = "equal"]
    /\ UNCHANGED <<ret, gen>>

\* Lines 142-143 for the n-th block.
EqualStep(t) ==
    /\ call[t].pc = "equal"
    /\ Appended(t, EqualPart(call[t].blocks[call[t].n]))
    /\ call' = [call EXCEPT
                  ![t].answer = @ \o EqualPart(call[t].blocks[call[t].n]),
                  ![t].n = @ + 1,
                  ![t].pc = "loop"]
    /\ UNCHANGED <<ret, gen>>

\* Line 144: the answer list is returned; it is the cached object unless
\* another thread has put its own list into self.opcodes since line 123.
ReturnAnswer(t) ==
    /\ call[t].pc = "loop" /\ call[t].n > Len(call[t].blocks)
    /\ ret' = [ret EXCEPT ![t] = Result(self, "return",
                                        IF call[t].alias THEN "cached" ELSE "list",
                                        call[t].answer).ret]
    /\ call' = [call EXCEPT ![t] = Ended(call[t])]
    /\ UNCHANGED <<self, gen>>

NextShared ==
    \E t \in Threads :
        \/ Begin(t) \/ Test(t) \/ ReturnCached(t)
        \/ StoreBlocks(t) \/ ReturnMap(t)
        \/ ResetOpcodes(t) \/ TakeBlocks(t)
        \/ GapStep(t) \/ EqualStep(t) \/ ReturnAnswer(t)

SpecShared == InitShared /\ [][NextShared]_vars

\* ------------------------------------------- the work list, step by step
\* get_matching_blocks with the native decomposition taken one pass of its
\* loop at a time: call holds the work list and the matches recorded.
MaxWorkLen == 3

Resting == [pc |-> "idle", queue |-> <<>>, found |-> <<>>]

InitWork ==
    \E isjunk \in JunkPredicates :
      \E sa \in SeqsUpTo(HashableElems, MaxWorkLen), sb \in SeqsUpTo(HashableElems, MaxWorkLen) :
        /\ self = init(isjunk, Obj("str", 1, sa), Obj("str", 1, sb), TRUE).self
        /\ call = Resting
        /\ ret = NoRet
        /\ gen = NoGen

\* The call: the cached list at once, or the work list started with the
\* full ranges.
Enter ==
    /\ call.pc = "idle"
    /\ UNCHANGED <<self, gen>>
    /\ IF ~IsNone(self.matching_blocks)
       THEN /\ ret' = Result(self, "early", "cached", Get(self.matching_blocks)).ret
            /\ UNCHANGED call
       ELSE /\ ret' = NoRet
            /\ call' = [pc |-> "work",
                        queue |-> << <<0, Len(self.a.items), 0, Len(self.b.items)>> >>,
                        found |-> <<>>]

\* The work list and the matches after the search of the popped range r
\* gave res.
Stepped(r, rest, found, res) ==
    IF res.err THEN Resting
    ELSE IF res.val[3] = 0 THEN [pc |-> "work", queue |-> rest, found |-> found]
    ELSE [pc |-> "work", queue |-> rest \o Flanks(r, res.val),
          found |-> Append(found, res.val)]

Popped(r, rest, found, res) ==
    /\ call' = Stepped(r, rest, found, res)
    /\ ret' = IF res.err THEN Raise(self).ret ELSE ret
    /\ UNCHANGED <<self, gen>>

\* One pass of the loop: pop the last range, search it, record and push.
WorkStep ==
    /\ call.pc = "work" /\ call.queue # <<>>
    /\ \E res \in {c_find_longest_match(self.a.items, self.b.items, self.b2j,
                                        Get(self.isbjunk),
                                        call.queue[Len(call.queue)][1],
                                        call.queue[Len(call.queue)][2],
                                        call.queue[Len(call.queue)][3],
                                        call.queue[Len(call.queue)][4])} :
          Popped(call.queue[Len(call.queue)],
                 SubSeq(call.queue, 1, Len(call.queue) - 1),
                 call.found, res)

Left(r) == self' = r.self /\ ret' = r.ret /\ call' = Resting /\ gen' = gen

\* The work list is empty: sort, merge, append the sentinel, cache, return.
Leave ==
    /\ call.pc = "work" /\ call.queue = <<>>
    /\ \E r \in {WithSentinel(self, SortedMerged(Ok(call.found)))} : Left(r)

NextWork == Enter \/ WorkStep \/ Leave

\* A call under way keeps running: the thread in it is not stopped for
\* ever.  While pc is "work" one of WorkStep and Leave is enabled and
\* changes the state, so this is weak fairness of the two, stated on the
\* steps taken.
KeepsRunning == <>[](call.pc = "work") => []<><<TRUE>>_vars

SpecWork == InitWork /\ [][NextWork]_vars /\ KeepsRunning

\* ------------------------------------------------------------------ claims
A == self.a.items
B == self.b.items
la == Len(A)
lb == Len(B)

Returned(name) == call.name = name /\ ret.exit # "raise"

\* The sequence the opcodes from the n-th on write: a[i1:i2] kept for
\* 'equal', dropped for 'delete', b[j1:j2] for 'insert' and 'replace'.
RECURSIVE Rewrite(_, _, _, _)
Rewrite(ops, n, sa, sb) ==
    IF n > Len(ops) THEN <<>>
    ELSE (IF ops[n][1] = "equal" THEN Slice(sa, ops[n][2], ops[n][3])
          ELSE IF ops[n][1] = "delete" THEN <<>>
          ELSE Slice(sb, ops[n][4], ops[n][5]))
         \o Rewrite(ops, n + 1, sa, sb)

\* The ranges of a (c = 2) or of b (c = 4) the opcodes name, in order, as
\* one list of positions.
RECURSIVE Covered(_, _, _)
Covered(ops, n, c) ==
    IF n > Len(ops) THEN <<>>
    ELSE [p \in 1..(ops[n][c + 1] - ops[n][c]) |-> ops[n][c] + p - 1]
         \o Covered(ops, n + 1, c)

\* C1: rewriting a with the opcodes get_opcodes returns gives b, and the
\* opcodes' ranges name every position of a and every position of b exactly
\* once, in order.
C1_RoundTrip ==
    Returned("get_opcodes") =>
        /\ Rewrite(ret.val, 1, A, B) = B
        /\ Covered(ret.val, 1, 2) = [p \in 1..la |-> p - 1]
        /\ Covered(ret.val, 1, 4) = [p \in 1..lb |-> p - 1]

\* C2: after a set_seq1 that took a new first sequence, the cached matching
\* blocks and the cached opcodes are reset.
C2_Seq1Invalidates ==
    (call.name = "set_seq1" /\ ret.exit = "return") =>
        IsNone(self.matching_blocks) /\ IsNone(self.opcodes)

\* What a session newly constructed with the sequences sa and sb returns
\* from get_opcodes.
FreshOpcodes(isjunk, autojunk, sa, sb) ==
    get_opcodes(init(isjunk, Obj("str", 1, sa), Obj("str", 1, sb), autojunk).self).ret.val

\* C3: after a set_seq2 that took a new second sequence and returned, b is
\* that sequence, isbjunk and isbpopular are the junk and popular values of
\* it (those the caller's predicate marks; those that occur more than ntest
\* times in a sequence of 200 or more, with autojunk on), matching_blocks,
\* opcodes and fullbcount are None; and a get_opcodes that follows returns
\* what a new session on a and that b returns.
C3_Seq2Rebuilds ==
    /\ [](  (call.name = "set_seq2" /\ ret.exit = "return") =>
            /\ B = call.obj.items
            /\ self.isbjunk = Some({v \in ElemsOf(call.obj.items) :
                                      IsJunkElem(self.isjunk, v)})
            /\ self.isbpopular =
                  Some(IF self.autojunk /\ Len(call.obj.items) >= AutojunkMinLen
                       THEN {v \in ElemsOf(call.obj.items) :
                               /\ ~IsJunkElem(self.isjunk, v)
                               /\ Count(call.obj.items, v) >
                                     (Len(call.obj.items) \div AutojunkDivisor) + 1}
                       ELSE {})
            /\ IsNone(self.matching_blocks)
            /\ IsNone(self.opcodes)
            /\ IsNone(self.fullbcount)  )
    /\ [][ (call.name = "set_seq2" /\ ret.exit = "return"
            /\ call'.name = "get_opcodes") =>
           (/\ ret'.exit = "return"
            /\ ret'.val = FreshOpcodes(self.isjunk, self.autojunk, A, call.obj.items)) ]_vars

\* a set_seq2 that took a long sequence in which "J" is junk and "y" is
\* popular
C3_Witness ==
    /\ call.name = "set_seq2" /\ ret.exit = "return"
    /\ Len(call.obj.items) = AutojunkMinLen
    /\ Count(call.obj.items, "J") = 1
    /\ self.isbjunk = Some({"J"})
    /\ self.isbpopular = Some({"y"})
    /\ A = <<"J">>

\* C4: the opcodes get_opcodes returns are gap-free and ordered: the first
\* starts at 0 in a and in b, each later one starts where the one before
\* ends, the last ends at len(a) and len(b); there is none only if a and b
\* are both empty.
C4_Partition ==
    Returned("get_opcodes") =>
        LET ops == ret.val IN
        /\ Len(ops) = 0 => la = 0 /\ lb = 0
        /\ Len(ops) > 0 => /\ ops[1][2] = 0 /\ ops[1][4] = 0
                           /\ ops[Len(ops)][3] = la /\ ops[Len(ops)][5] = lb
        /\ \A n \in 1..Len(ops) : ops[n][2] <= ops[n][3] /\ ops[n][4] <= ops[n][5]
        /\ \A n \in 2..Len(ops) : ops[n][2] = ops[n - 1][3] /\ ops[n][4] = ops[n - 1][5]

\* C5: in the list get_matching_blocks gives, the sentinel included, every
\* block starts after the one before it in a and in b, and no two blocks
\* overlap in a or in b.
C5_BlocksOrdered ==
    Returned("get_matching_blocks") =>
        LET mb == ret.val IN
        /\ \A n \in 2..Len(mb) : mb[n - 1][1] < mb[n][1] /\ mb[n - 1][2] < mb[n][2]
        /\ \A m \in 1..Len(mb) : \A n \in (m + 1)..Len(mb) :
              mb[m][1] + mb[m][3] <= mb[n][1] /\ mb[m][2] + mb[m][3] <= mb[n][2]

C5_Witness ==
    /\ Returned("get_matching_blocks")
    /\ Len(ret.val) = 3
    /\ ret.val[1][1] # ret.val[1][2]

\* C6: a get_matching_blocks right after a get_matching_blocks, or a
\* get_opcodes right after a get_opcodes, returns the same value in the same
\* form and leaves the session as it was.
C6_Idempotent ==
    [][ (/\ call.name \in {"get_matching_blocks", "get_opcodes"}
         /\ call'.name = call.name
         /\ ret.exit # "raise") =>
        (/\ ret'.val = ret.val
         /\ ret'.form = ret.form
         /\ self' = self) ]_vars

\* C7: a set_seq1 or set_seq2 whose argument holds an unhashable element
\* raises.
C7_FailFast ==
    (call.name \in {"set_seq1", "set_seq2"} /\ HashRaises(call.obj.items)) =>
        ret.exit = "raise"

\* <<i, j, k>> is a common run of a[alo:ahi] and b[blo:bhi].
IsRun(i, j, k, r) ==
    /\ r[1] <= i /\ i + k <= r[2]
    /\ r[3] <= j /\ j + k <= r[4]
    /\ Slice(A, i, i + k) = Slice(B, j, j + k)

\* C8: with no junk and no popular values, find_longest_match returns a
\* longest common run within the bounds, and of the longest runs the one
\* that starts earliest in a and, of those, earliest in b.
C8_TieBreak ==
    (/\ Returned("find_longest_match")
     /\ self.isbjunk = Some({}) /\ self.isbpopular = Some({})) =>
        LET r == call.range
            m == ret.val
        IN /\ ret.form = "Match"
           /\ IsRun(m[1], m[2], m[3], r)
           /\ \A i \in r[1]..r[2], j \in r[3]..r[4], k \in 0..MaxFlmLen :
                 IsRun(i, j, k, r) =>
                    \/ k < m[3]
                    \/ k = m[3] /\ m[1] < i
                    \/ k = m[3] /\ m[1] = i /\ m[2] <= j

\* two runs of the longest length, the later one in a earlier in b
C8_Witness ==
    /\ Returned("find_longest_match")
    /\ self.isbjunk = Some({})
    /\ ret.val[3] > 0
    /\ \E i \in 0..la, j \in 0..lb :
          /\ IsRun(i, j, ret.val[3], call.range)
          /\ i > ret.val[1] /\ j < ret.val[2]

\* C9: for a equal to b, of any length, get_opcodes returns the
\* one opcode ('equal', 0, len, 0, len).
C9_IdenticalAnyLength ==
    (Returned("get_opcodes") /\ A = B) =>
        ret.val = << <<"equal", 0, la, 0, lb>> >>

\* C10: with a empty, get_matching_blocks gives the sentinel (0, len(b), 0)
\* alone, and get_opcodes gives no opcode if b is empty and the one opcode
\* ('insert', 0, 0, 0, len(b)) if not.
C10_EmptyFirst ==
    la = 0 =>
        /\ Returned("get_matching_blocks") => ret.val = << <<0, lb, 0>> >>
        /\ Returned("get_opcodes") =>
              ret.val = IF lb = 0 THEN <<>> ELSE << <<"insert", 0, 0, 0, lb>> >>

\* C11: a call of set_seq1, whether it returns early, returns after taking
\* the sequence or raises, leaves b, the position index b2j, isbjunk,
\* isbpopular and fullbcount as they were.
C11_Seq1KeepsB ==
    [][call'.name = "set_seq1" =>
          /\ self'.b = self.b
          /\ self'.b2j = self.b2j
          /\ self'.isbjunk = self.isbjunk
          /\ self'.isbpopular = self.isbpopular
          /\ self'.fullbcount = self.fullbcount]_vars

\* a set_seq1 that took a new a, in a session whose b has an indexed value
\* and whose fullbcount quick_ratio has filled
C11_Witness ==
    /\ call.name = "set_seq1" /\ ret.exit = "return"
    /\ A # B /\ la = 0
    /\ lb = 1 /\ self.b2j["J"] = <<0>>
    /\ self.isbjunk = Some({})
    /\ self.fullbcount = Some([v \in {"J"} |-> 1])

\* The object the caller last handed as b: the list held, or, when the
\* session holds a list it made itself, the tuple that list was made of (the
\* pool has one tuple for each content).
HandedB == IF self.b.id = 0 THEN Obj("tuple", 1, B) ELSE self.b

\* C12: set_seq2 called with the object last handed as b, list or not, once
\* isbjunk exists, changes nothing: a, b, the index, isbjunk, isbpopular,
\* fullbcount and both caches stay as they were.
C12_SameSeq2NoOp ==
    [][(/\ call'.name = "set_seq2"
        /\ call'.obj = HandedB
        /\ ~IsNone(self.isbjunk))
       => self' = self]_vars

\* Both caches are filled: neither attribute is None.
Populated == ~IsNone(self.matching_blocks) /\ ~IsNone(self.opcodes)

\* The computation is over: no thread is past a test that found no cache.
Completed ==
    \A t \in Threads :
        \/ call[t].pc = "idle"
        \/ call[t].pc \in {"test", "cached"} /\ call[t].frame = call[t].name

\* C13: once both caches are filled, whatever the order in which the
\* threads' steps of get_matching_blocks and get_opcodes run, no step
\* changes the session, and every call that ends returns the cached list.
C13_PopulatedReads ==
    [][Populated =>
          /\ self' = self
          /\ \A t \in Threads :
                ret'[t] # ret[t] /\ call'[t].pc = "idle" =>
                    /\ ret'[t].form = "cached"
                    /\ ret'[t].val = Get(CacheOf(self, call[t].name))]_vars

\* C13 as it holds: once both caches are filled and the computation is
\* over, whatever the order in which the threads' steps of
\* get_matching_blocks and get_opcodes run, it stays so, no step changes
\* the session, and every call that ends returns the cached list, which is
\* the complete one.
C13_SharedReads ==
    [][(Populated /\ Completed) =>
          /\ Populated' /\ Completed'
          /\ self' = self
          /\ \A t \in Threads :
                ret'[t] # ret[t] /\ call'[t].pc = "idle" =>
                    /\ ret'[t].form = "cached"
                    /\ ret'[t].val = Get(CacheOf(self, call[t].name))
                    /\ call[t].name = "get_opcodes" =>
                          ret'[t].val = OpcodeLoop(Get(self.matching_blocks),
                                                   1, 0, 0, <<>>)]_vars

\* one thread has returned the cached opcodes, which an earlier call of
\* the other thread filled, while the other is between the test and the
\* return of get_matching_blocks
C13_Witness ==
    /\ Populated /\ Completed
    /\ call[1].name = "get_opcodes" /\ call[1].pc = "idle"
    /\ ret[1].exit = "early" /\ ret[1].form = "cached" /\ Len(ret[1].val) = 1
    /\ call[2].name = "get_matching_blocks" /\ call[2].pc = "cached"

\* C14: with autojunk on, no junk predicate and len(b) >= 200, every value
\* that holds more than 1% of the positions of b is popular and has no
\* position left in the index.
C14_PopularOverOnePercent ==
    (self.autojunk /\ self.isjunk = "none" /\ lb >= AutojunkMinLen) =>
        \A v \in ElemsOf(B) :
            Count(B, v) * 100 > lb =>
                v \in Get(self.isbpopular) /\ self.b2j[v] = <<>>

\* C14 as it holds: with autojunk on, no junk predicate and len(b) >= 200,
\* every value that occurs more than len(b) // 100 + 1 times in b is popular
\* and has no position left in the index.
C14_PopularOverNtest ==
    (self.autojunk /\ self.isjunk = "none" /\ lb >= AutojunkMinLen) =>
        \A v \in ElemsOf(B) :
            Count(B, v) > (lb \div AutojunkDivisor) + 1 =>
                v \in Get(self.isbpopular) /\ self.b2j[v] = <<>>

\* b of length 200 with four "x": one more than ntest = 3
C14_Witness ==
    /\ self.autojunk /\ self.isjunk = "none"
    /\ lb = AutojunkMinLen
    /\ Count(B, "x") = (lb \div AutojunkDivisor) + 2
    /\ Get(self.isbpopular) = {"x", "y"}
    /\ Returned("get_opcodes")

\* C15: in every list get_opcodes returns, a 'replace' has both ranges
\* non-empty, a 'delete' a non-empty range of a and an empty one of b, an
\* 'insert' the reverse, an 'equal' two ranges of the same positive length
\* that hold the same elements; no opcode has both ranges empty, and none is
\* an 'equal' made of the sentinel.
C15_TagsMatchRanges ==
    Returned("get_opcodes") =>
        \A n \in 1..Len(ret.val) :
            LET tag == ret.val[n][1]
                i1 == ret.val[n][2]
                i2 == ret.val[n][3]
                j1 == ret.val[n][4]
                j2 == ret.val[n][5]
            IN /\ tag \in {"replace", "delete", "insert", "equal"}
               /\ tag = "replace" => i1 < i2 /\ j1 < j2
               /\ tag = "delete" => i1 < i2 /\ j1 = j2
               /\ tag = "insert" => i1 = i2 /\ j1 < j2
               /\ tag = "equal" =>
                     /\ i2 - i1 = j2 - j1 /\ i2 - i1 > 0
                     /\ i2 <= la /\ j2 <= lb
                     /\ Slice(A, i1, i2) = Slice(B, j1, j2)
               /\ ~(i1 = i2 /\ j1 = j2)
               /\ ~(tag = "equal" /\ i1 = la /\ j1 = lb)

\* C16: in the cached matching blocks no two consecutive blocks before the
\* sentinel are adjacent in both a and b, and in every list get_opcodes
\* returns an 'equal' is followed by a non-'equal' and a non-'equal' by an
\* 'equal'.
C16_MergeComplete ==
    /\ ~IsNone(self.matching_blocks) =>
          \A n \in 1..(Len(Get(self.matching_blocks)) - 2) :
              LET m1 == Get(self.matching_blocks)[n]
                  m2 == Get(self.matching_blocks)[n + 1]
              IN ~(m1[1] + m1[3] = m2[1] /\ m1[2] + m1[3] = m2[2])
    /\ Returned("get_opcodes") =>
          \A n \in 1..(Len(ret.val) - 1) :
              (ret.val[n][1] = "equal") # (ret.val[n + 1][1] = "equal")

\* the decomposition found two adjacent blocks, split by a junk element, and
\* the cached list holds them as one
C16_Witness ==
    /\ Returned("get_opcodes")
    /\ self.isbjunk = Some({"J"})
    /\ A = <<"x", "J", "x">> /\ B = A
    /\ Len(Decompose(A, B, self.b2j, {"J"}, << <<0, 3, 0, 3>> >>, <<>>).val) = 2
    /\ Get(self.matching_blocks) = << <<0, 0, 3>>, <<3, 3, 0>> >>

\* The positions of b within the match <<i, j, k>> that hold a non-junk
\* element.
NonJunkOf(m) == {p \in m[2]..(m[2] + m[3] - 1) : At(B, p) \notin Get(self.isbjunk)}

Contiguous(S) == \A p \in S, q \in S : \A m \in p..q : m \in S

WithinRange(m, r) ==
    /\ r[1] <= m[1] /\ m[1] + m[3] <= r[2]
    /\ r[3] <= m[2] /\ m[2] + m[3] <= r[4]

\* C17: with a junk predicate, every match of positive length that
\* find_longest_match returns holds a non-junk element of b, and its
\* non-junk elements are one run with junk only at the two ends.
C17_NonJunkCore ==
    (Returned("find_longest_match") /\ self.isjunk = "isJ" /\ ret.val[3] > 0) =>
        /\ WithinRange(ret.val, call.range)
        /\ NonJunkOf(ret.val) # {}
        /\ Contiguous(NonJunkOf(ret.val))

\* C17 as it holds: with a junk predicate, every match of positive length
\* that find_longest_match returns either holds a non-junk element of b, its
\* non-junk elements being one run with junk only at the two ends, or is
\* made of junk only and starts at (alo, blo).
C17_NonJunkCoreOrJunkAtStart ==
    (Returned("find_longest_match") /\ self.isjunk = "isJ" /\ ret.val[3] > 0) =>
        /\ WithinRange(ret.val, call.range)
        /\ \/ NonJunkOf(ret.val) # {} /\ Contiguous(NonJunkOf(ret.val))
           \/ /\ NonJunkOf(ret.val) = {}
              /\ ret.val[1] = call.range[1]
              /\ ret.val[2] = call.range[3]

\* a match J x J: a non-junk core with junk taken in at both ends
C17_Witness ==
    /\ Returned("find_longest_match") /\ self.isjunk = "isJ"
    /\ ret.val[3] = 3
    /\ NonJunkOf(ret.val) = {ret.val[2] + 1}

\* The size of a range <<alo, ahi, blo, bhi>>.
RangeSize(r) == (r[2] - r[1]) + (r[4] - r[3])

\* The sum over the work list of the sizes of its ranges, each plus one.
RECURSIVE Load(_, _)
Load(queue, n) ==
    IF n > Len(queue) THEN 0 ELSE RangeSize(queue[n]) + 1 + Load(queue, n + 1)

\* C18: the work list started with (0, len(a), 0, len(b)) gets empty and
\* get_matching_blocks returns: every range pushed is smaller than the
\* range popped, a search that finds nothing pushes nothing, the load of
\* the work list goes down with every pass, and the call, once begun, ends
\* with the list the method gives.
C18_Terminates ==
    /\ [][(call.pc = "work" /\ call'.pc = "work") =>
            /\ Load(call'.queue, 1) < Load(call.queue, 1)
            /\ \A n \in Len(call.queue)..Len(call'.queue) :
                  RangeSize(call'.queue[n]) < RangeSize(call.queue[Len(call.queue)])
            /\ Len(call'.found) = Len(call.found) =>
                  Len(call'.queue) = Len(call.queue) - 1]_vars
    /\ [][(call.pc = "work" /\ call'.pc = "idle") =>
            /\ ret' = get_matching_blocks(self).ret
            /\ self' = get_matching_blocks(self).self]_vars
    /\ (call.pc = "work") ~> (call.pc = "idle" /\ ret.exit = "return")

\* two ranges wait on the work list, pushed left and right of a match
C18_Witness ==
    /\ call.pc = "work"
    /\ Len(call.queue) = 2 /\ Len(call.found) = 1
    /\ call.queue[1][2] = call.found[1][1]
    /\ call.queue[2][1] = call.found[1][1] + call.found[1][3]

\* C19: a set_seq1 or set_seq2 that raises leaves the session as it was
\* before the call: a, b, the index, isbjunk, isbpopular, fullbcount and
\* both caches.
C19_FailedKeepsSession ==
    [][(call'.name \in {"set_seq1", "set_seq2"} /\ ret'.exit = "raise")
       => self' = self]_vars

\* C20: whenever opcodes is filled, matching_blocks is filled too and
\* opcodes is the whole list the loop of get_opcodes makes of the cached
\* blocks.
C20_StagesConsistent ==
    ~IsNone(self.opcodes) =>
        /\ ~IsNone(self.matching_blocks)
        /\ Get(self.opcodes) = OpcodeLoop(Get(self.matching_blocks), 1, 0, 0, <<>>)

====
